---- MODULE Spec2Model ----
(***************************************************************************)
(* A model of the vibez step sequencer (src/src/main.rs): the Sequencer    *)
(* behind Arc<Mutex<..>>, the audio callback that calls                    *)
(* Sequencer::process once per output sample, and the control edits of     *)
(* repl_mode and of the main menu.                                         *)
(*                                                                         *)
(* Units.  f32 quantities are modelled in fixed point:                     *)
(*   frequency   milli-hertz                      (440.0 Hz = 440000)      *)
(*   phase       1/(1000*sample_rate) of a cycle, so that one sample       *)
(*               advances the phase by exactly `frequency` units and       *)
(*               1.0 is  1000*sample_rate  units                           *)
(*   env_phase   sample periods (1/sample_rate s), one unit per sample     *)
(*   attack, decay, release   milliseconds;  amp, sustain   1/1000         *)
(*   waveform value, envelope   1/1000;  returned samples   1/1000000      *)
(* Indices are 0-based as in the source; a TLA+ sequence s is read at      *)
(* s[i + 1].                                                               *)
(***************************************************************************)
EXTENDS Integers, Sequences, FiniteSets, TLC

VARIABLES
    seq,        \* the Sequencer held by the Arc<Mutex<Sequencer>>
    fault,      \* "none", or the panic that unwound out of Sequencer::process
    last,       \* history: the operation that produced the current state,
                \* the track name a command was given, and what each
                \* Voice::process read and what Sequencer::process returned
                \* if it was a process call
    nsamples,   \* history: number of Sequencer::process calls so far (its
                \* parity where the callback runs for ever)
    nedits,     \* history: number of control commands so far
    limit,      \* the number of process calls a behaviour is followed for
    locked,     \* the Mutex is held
    audio_pc,   \* the audio callback: "idle", "callback" or "dead"
    audio_buf,  \* <<length of the callback's buffer, samples still to write>>
    ctl_pc,     \* the control thread: "idle", "locked", "half" or "done"
    ctl_cmd,    \* the command the control thread is carrying out
    call,       \* a call of note_to_semitone or minor_scale on its own: the
                \* function, its argument and what it returned
    ctl_io,     \* the I/O call the control thread is inside: "none",
                \* "file" (fs::write) or "console" (println!)
    snap        \* history: the Sequencer as each lock holder found it

seqvars == <<seq, fault, last, nsamples, nedits, limit>>

lockvars == <<locked, audio_pc, audio_buf, ctl_pc, ctl_cmd, ctl_io, snap>>

vars == <<seq, fault, last, nsamples, nedits, limit,
          locked, audio_pc, audio_buf, ctl_pc, ctl_cmd, ctl_io, snap, call>>

-----------------------------------------------------------------------------
(* Bounds of the model *)

MaxTracks == 2

MaxSamples == 5

MaxEdits == 2

MaxBuffer == 2

-----------------------------------------------------------------------------
(* Helpers *)

SeqMax(s) == CHOOSE m \in {s[i] : i \in 1..Len(s)} : \A j \in 1..Len(s) : s[j] <= m

RemoveAt(s, pos) == [j \in 1..(Len(s) - 1) |-> IF j <= pos THEN s[j] ELSE s[j + 1]]

RECURSIVE Pow2(_)
Pow2(n) == IF n <= 0 THEN 1 ELSE 2 * Pow2(n - 1)

\* Vec::iter().position(..) / find(..): the first index (0-based) whose
\* track has the given name, or -1.
Position(trs, name) ==
    IF \E i \in 1..Len(trs) : trs[i].name = name
    THEN (CHOOSE i \in 1..Len(trs) :
             /\ trs[i].name = name
             /\ \A j \in 1..(i - 1) : trs[j].name # name) - 1
    ELSE -1

-----------------------------------------------------------------------------
(* Voice *)

Waveform == {"Sine", "Saw", "Square", "Triangle"}

VoicesPerTrack == 3

\* Voice::new.  made_for is a history field: the name of the track the
\* voice's stack is pushed for ("" until the stack is pushed).
Voice_new ==
    [phase |-> 0, frequency |-> 440000, waveform |-> "Saw", amp |-> 150,
     attack |-> 10, decay |-> 100, sustain |-> 300, release |-> 100,
     env_phase |-> 0, made_for |-> ""]

\* vec![Voice::new(); 3], pushed for the track called name
VoiceStack(name) ==
    [i \in 1..VoicesPerTrack |-> [Voice_new EXCEPT !.made_for = name]]

set_frequency(v, freq) == [v EXCEPT !.frequency = freq]

reset_env(v) == [v EXCEPT !.env_phase = 0]

\* The state change of Voice::process: the phase advances by
\* frequency / sample_rate and wraps by one subtraction of 1.0; env_phase
\* advances by one sample period.
Voice_process(v, sample_rate) ==
    LET p == v.phase + v.frequency
    IN  [v EXCEPT !.phase = IF p >= 1000 * sample_rate
                            THEN p - 1000 * sample_rate ELSE p,
                  !.env_phase = v.env_phase + 1]

\* What Voice::process computes its returned sample from: the sample is
\* waveform(phase) * amp * env(env_phase), read before the state advances.
Voice_reads(v) ==
    [phase |-> v.phase, waveform |-> v.waveform, env_phase |-> v.env_phase]

Abs(x) == IF x < 0 THEN 0 - x ELSE x

\* (2 pi * phase).sin() in thousandths, for a phase p in thousandths of a
\* cycle: Bhaskara's rational approximation of the half wave,
\* 32 x / (5 - 8 x) with x = h (1 - 2 h), which is exact at the zeros and
\* at the peaks and stays within [-1, 1] as the sine does.
sin_2pi(p) ==
    LET q == p % 1000
        h == IF q < 500 THEN q ELSE q - 500
        x == h * (1000 - 2 * h)
        s == (32 * x) \div ((5000000 - 8 * x) \div 1000)
    IN  IF q < 500 THEN s ELSE 0 - s

\* `let sample = match self.waveform {..}`, in thousandths; the phase is
\* read in thousandths of a cycle
sample(v, sample_rate) ==
    LET p == v.phase \div sample_rate IN
    CASE v.waveform = "Saw" -> 2 * (p - 500)
      [] v.waveform = "Sine" -> sin_2pi(p)
      [] v.waveform = "Square" -> IF p < 500 THEN 1000 ELSE 0 - 1000
      [] v.waveform = "Triangle" -> 1000 - Abs(4 * (p - 250))

\* `let env = if .. else if .. else ..`, in thousandths; attack and decay
\* are taken in samples
env(v, sample_rate) ==
    LET a == (v.attack * sample_rate) \div 1000
        d == (v.decay * sample_rate) \div 1000
    IN  IF v.env_phase < a THEN (v.env_phase * 1000) \div a
        ELSE IF v.env_phase < a + d
        THEN 1000 - ((((v.env_phase - a) * 1000) \div d) * (1000 - v.sustain)) \div 1000
        ELSE v.sustain

\* The value Voice::process returns: sample * amp * env, in millionths
Voice_output(v, sample_rate) ==
    (sample(v, sample_rate) * v.amp * env(v, sample_rate)) \div 1000

-----------------------------------------------------------------------------
(* Scale and pitch *)

\* 440000 * 2^(k/12) for k = 0..11, in milli-hertz
SemitoneTable ==
    <<440000, 466164, 493883, 523251, 554365, 587330,
      622254, 659255, 698456, 739989, 783991, 830609>>

\* 440.0 * 2^((n - 69)/12)
midi_to_freq(n) ==
    LET d == n - 69
        o == d \div 12
        k == d % 12
    IN  IF o >= 0 THEN SemitoneTable[k + 1] * Pow2(o)
        ELSE SemitoneTable[k + 1] \div Pow2(0 - o)

\* str::to_lowercase on the note spellings
to_lowercase(name) ==
    CASE name = "C" -> "c"   [] name = "C#" -> "c#" [] name = "Db" -> "db"
      [] name = "DB" -> "db" [] name = "D" -> "d"   [] name = "D#" -> "d#"
      [] name = "Eb" -> "eb" [] name = "EB" -> "eb" [] name = "E" -> "e"
      [] name = "F" -> "f"   [] name = "F#" -> "f#" [] name = "Gb" -> "gb"
      [] name = "GB" -> "gb" [] name = "G" -> "g"   [] name = "G#" -> "g#"
      [] name = "Ab" -> "ab" [] name = "AB" -> "ab" [] name = "A" -> "a"
      [] name = "A#" -> "a#" [] name = "Bb" -> "bb" [] name = "BB" -> "bb"
      [] name = "B" -> "b"   [] name = "H" -> "h"
      [] name = "dB" -> "db" [] name = "eB" -> "eb" [] name = "gB" -> "gb"
      [] name = "aB" -> "ab" [] name = "bB" -> "bb" [] name = "E#" -> "e#"
      [] name = "B#" -> "b#" [] name = "Cb" -> "cb" [] name = "CB" -> "cb"
      [] name = "cB" -> "cb" [] name = "Fb" -> "fb" [] name = "FB" -> "fb"
      [] name = "fB" -> "fb" [] name = "Do" -> "do" [] name = "C " -> "c "
      [] OTHER -> name

\* mutant of note_to_semitone: the name is matched as it is written
note_to_semitone_as_written(name) ==
    LET n == name
    IN  CASE n = "c" -> 0
          [] n = "c#" \/ n = "db" -> 1
          [] n = "d" -> 2
          [] n = "d#" \/ n = "eb" -> 3
          [] n = "e" -> 4
          [] n = "f" -> 5
          [] n = "f#" \/ n = "gb" -> 6
          [] n = "g" -> 7
          [] n = "g#" \/ n = "ab" -> 8
          [] n = "a" -> 9
          [] n = "a#" \/ n = "bb" -> 10
          [] n = "b" -> 11
          [] OTHER -> 0

note_to_semitone(name) ==
    LET n == to_lowercase(name)
    IN  CASE n = "c" -> 0
          [] n = "c#" \/ n = "db" -> 1
          [] n = "d" -> 2
          [] n = "d#" \/ n = "eb" -> 3
          [] n = "e" -> 4
          [] n = "f" -> 5
          [] n = "f#" \/ n = "gb" -> 6
          [] n = "g" -> 7
          [] n = "g#" \/ n = "ab" -> 8
          [] n = "a" -> 9
          [] n = "a#" \/ n = "bb" -> 10
          [] n = "b" -> 11
          [] OTHER -> 0

minor_scale(root) ==
    LET r == note_to_semitone(root)
        base == <<0, 2, 3, 5, 7, 8, 10>>
    IN  [i \in 1..Len(base) |-> base[i] + r]

-----------------------------------------------------------------------------
(* Track *)

Track_new(name) ==
    [name |-> name, pattern |-> <<0>>, octave |-> 3, transpose |-> 0,
     waveform |-> "Saw", voice_spread |-> 7]

-----------------------------------------------------------------------------
(* Sequencer *)

Sequencer_new(sample_rate) ==
    [tracks |-> <<Track_new("Main")>>,
     scale |-> minor_scale("g"),
     voices |-> <<VoiceStack("Main")>>,
     sample_rate |-> sample_rate,
     step |-> 0,
     samples_per_step |-> sample_rate \div 4,
     sample_counter |-> 0]

\* (sample_rate * 60.0 / bpm / 4.0) as usize: the cast truncates, sends a
\* negative value to 0 and +infinity to usize::MAX.
StepSamples(sample_rate, bpm) ==
    IF bpm > 0 THEN (sample_rate * 60) \div (bpm * 4)
    ELSE IF bpm = 0 THEN Pow2(64) - 1
    ELSE 0

from_project(project, sample_rate) ==
    [tracks |-> project.tracks,
     scale |-> project.scale,
     voices |-> [i \in 1..Len(project.tracks) |-> VoiceStack(project.tracks[i].name)],
     sample_rate |-> sample_rate,
     step |-> 0,
     samples_per_step |-> StepSamples(sample_rate, project.bpm),
     sample_counter |-> 0]

push_voices(vcs, name) == Append(vcs, VoiceStack(name))

\* mutant of add_track: the new track restarts the count of samples
add_track_restarts_counter(s, track) ==
    [s EXCEPT !.tracks = Append(s.tracks, track),
              !.voices = push_voices(s.voices, track.name),
              !.sample_counter = 0]

add_track(s, track) ==
    [s EXCEPT !.tracks = Append(s.tracks, track),
              !.voices = push_voices(s.voices, track.name)]

get_max_pattern_len(trs) ==
    IF Len(trs) = 0 THEN 1
    ELSE SeqMax([i \in 1..Len(trs) |-> Len(trs[i].pattern)])

\* mutant of is_rest: only notes below -1 are rests
is_rest_below_minus_one(note) == note < 0 - 1

is_rest(note) == note < 0

\* mutant of voice_pitch: every voice of the stack gets the base pitch
voice_pitch_unspread(midi_base, i, voice_spread) == midi_base

voice_pitch(midi_base, i, voice_spread) == midi_base + i * voice_spread

\* the body of the loop over a track's voices in trigger_step
retrigger(v, track, midi_base, i) ==
    LET freq == midi_to_freq(voice_pitch(midi_base, i, track.voice_spread))
    IN  reset_env([set_frequency(v, freq) EXCEPT !.waveform = track.waveform])

\* trigger_step from track index k (1-based) on, vcs being the voices as
\* the earlier tracks left them.  fault is the panic of the remainder by a
\* zero scale length, which ends the loop.
RECURSIVE trigger_from(_, _, _)
trigger_from(s, k, vcs) ==
    IF k > Len(s.tracks) THEN [voices |-> vcs, fault |-> "none"]
    ELSE LET track == s.tracks[k] IN
         IF Len(track.pattern) = 0 THEN trigger_from(s, k + 1, vcs)
         ELSE LET note == track.pattern[(s.step % Len(track.pattern)) + 1] IN
              IF is_rest(note) THEN trigger_from(s, k + 1, vcs)
              ELSE IF Len(s.scale) = 0
                   THEN [voices |-> vcs, fault |-> "scale_len_zero"]
              ELSE LET scale_note == s.scale[(note % Len(s.scale)) + 1]
                       midi_base == scale_note + track.transpose + track.octave * 12
                   IN  trigger_from(s, k + 1,
                          IF k <= Len(vcs)
                          THEN [vcs EXCEPT ![k] =
                                   [i \in 1..Len(vcs[k]) |->
                                       retrigger(vcs[k][i], track, midi_base, i - 1)]]
                          ELSE vcs)

trigger_step(s) == trigger_from(s, 1, s.voices)

RECURSIVE SumSeq(_)
SumSeq(xs) == IF xs = <<>> THEN 0 ELSE Head(xs) + SumSeq(Tail(xs))

\* mutant of average: the sum is divided by the number of tracks
average_per_track(vcs, sample_rate) ==
    IF Len(vcs) > 0
    THEN SumSeq([t \in 1..Len(vcs) |->
                   SumSeq([i \in 1..Len(vcs[t]) |->
                             Voice_output(vcs[t][i], sample_rate)])])
            \div Len(vcs)
    ELSE 0

\* `sum` and `voice_count` of Sequencer::process and its returned value:
\* mixed / voice_count, or 0.0 when there is no voice (millionths, the
\* quotient rounded down)
average(vcs, sample_rate) ==
    LET sum == SumSeq([t \in 1..Len(vcs) |->
                           SumSeq([i \in 1..Len(vcs[t]) |->
                                     Voice_output(vcs[t][i], sample_rate)])])
        voice_count == SumSeq([t \in 1..Len(vcs) |-> Len(vcs[t])])
    IN  IF voice_count > 0 THEN sum \div voice_count ELSE 0

\* "mix all tracks": every voice of every stack is processed once
mix(s) ==
    [seq |-> [s EXCEPT !.voices =
                 [t \in 1..Len(s.voices) |->
                     [i \in 1..Len(s.voices[t]) |->
                         Voice_process(s.voices[t][i], s.sample_rate)]]],
     seen |-> [t \in 1..Len(s.voices) |->
                 [i \in 1..Len(s.voices[t]) |-> Voice_reads(s.voices[t][i])]],
     out |-> average(s.voices, s.sample_rate),
     fault |-> "none"]

\* mutant of at_boundary: the boundary is one sample early
at_boundary_early(counter, samples_per_step) == counter + 1 >= samples_per_step

\* mutant of at_boundary: the boundary is one sample late
at_boundary_late(counter, samples_per_step) == counter > samples_per_step

at_boundary(counter, samples_per_step) == counter >= samples_per_step

\* mutant of next_step: the step wraps to 1, not to 0
next_step_wraps_to_one(step, trs) ==
    LET n == (step + 1) % get_max_pattern_len(trs)
    IN  IF n = 0 /\ get_max_pattern_len(trs) > 1 THEN 1 ELSE n

\* mutant of next_step: the modulus is one too large
next_step_wide(step, trs) == (step + 1) % (get_max_pattern_len(trs) + 1)

next_step(step, trs) == (step + 1) % get_max_pattern_len(trs)

\* mutant of Sequencer_process: the voices are mixed before the step is
\* triggered
process_mix_first(s) ==
    LET c == s.sample_counter + 1 IN
    IF ~(c >= s.samples_per_step)
    THEN mix([s EXCEPT !.sample_counter = c]) @@ [boundary |-> FALSE]
    ELSE LET s1 == [s EXCEPT !.sample_counter = 0] IN
         IF get_max_pattern_len(s1.tracks) = 0
         THEN [seq |-> s1, seen |-> <<>>, out |-> 0, fault |-> "pattern_len_zero",
               boundary |-> TRUE]
         ELSE LET m == mix([s1 EXCEPT !.step = (s1.step + 1) % get_max_pattern_len(s1.tracks)])
                  t == trigger_step(m.seq)
              IN  IF t.fault # "none"
                  THEN [seq |-> m.seq, seen |-> <<>>, out |-> 0, fault |-> t.fault,
                        boundary |-> TRUE]
                  ELSE [seq |-> [m.seq EXCEPT !.voices = t.voices], seen |-> m.seen,
                        out |-> m.out, fault |-> "none", boundary |-> TRUE]

\* Sequencer::process.  The result is the Sequencer as the call leaves it,
\* what the voices' samples were computed from, whether the call crossed a
\* step boundary, and the panic that ended the call, if any.  A panic leaves
\* the assignments made before it in place.
Sequencer_process(s) ==
    LET c == s.sample_counter + 1 IN
    IF ~at_boundary(c, s.samples_per_step)
    THEN mix([s EXCEPT !.sample_counter = c]) @@ [boundary |-> FALSE]
    ELSE LET s1 == [s EXCEPT !.sample_counter = 0] IN
         IF get_max_pattern_len(s1.tracks) = 0
         THEN [seq |-> s1, seen |-> <<>>, out |-> 0, fault |-> "pattern_len_zero",
               boundary |-> TRUE]
         ELSE LET s2 == [s1 EXCEPT !.step = next_step(s1.step, s1.tracks)]
                  t == trigger_step(s2)
                  s3 == [s2 EXCEPT !.voices = t.voices]
              IN  IF t.fault # "none"
                  THEN [seq |-> s3, seen |-> <<>>, out |-> 0, fault |-> t.fault,
                        boundary |-> TRUE]
                  ELSE mix(s3) @@ [boundary |-> TRUE]


\* mutant of update_track: the track is taken out and pushed again at the
\* end, with its voice stack
update_track_moved_last(s, pos, track) ==
    [s EXCEPT !.tracks = Append(RemoveAt(s.tracks, pos), track),
              !.voices = Append(RemoveAt(s.voices, pos), s.voices[pos + 1])]

\* mutant of update_track: the updated track gets a new voice stack
update_track_new_voices(s, pos, track) ==
    [s EXCEPT !.tracks[pos + 1] = track,
              !.voices[pos + 1] = VoiceStack(track.name)]

\* to_project is a read; the REPL's update branch: *existing = track.clone()
update_track(s, pos, track) == [s EXCEPT !.tracks[pos + 1] = track]

\* mutant of remove_voices: the last stack is dropped, whatever the position
remove_voices_last(vcs, pos) == RemoveAt(vcs, Len(vcs) - 1)

remove_voices(vcs, pos) == RemoveAt(vcs, pos)

\* mutant of remove_track: the delete also rewinds the step
remove_track_rewind(s, pos) ==
    [s EXCEPT !.tracks = RemoveAt(s.tracks, pos),
              !.voices = remove_voices(s.voices, pos),
              !.step = 0]

\* the REPL's delete branch once the position is found
remove_track(s, pos) ==
    [s EXCEPT !.tracks = RemoveAt(s.tracks, pos),
              !.voices = remove_voices(s.voices, pos)]

\* the REPL's clear branch, and main's clearing of a new Sequencer
clear_tracks(s) == [s EXCEPT !.tracks = <<>>, !.voices = <<>>]

-----------------------------------------------------------------------------
(* The REPL line parser.  A line is what follows the track name: each of   *)
(* the fields n"..", .o(..), .trans(..), .s(..) is absent (<<>>) or        *)
(* present (<<x>>); a number token either parses as an i32 or does not.    *)

Num(v) == [num |-> TRUE, val |-> v]

NotNum == [num |-> FALSE, val |-> 0]

\* split_whitespace().filter_map(|x| x.parse::<i32>().ok()).collect()
ParsePattern(toks) ==
    LET good == SelectSeq(toks, LAMBDA x : x.num)
    IN  [i \in 1..Len(good) |-> good[i].val]

parse_track_line(line) ==
    LET t0 == Track_new("Untitled")
        t1 == IF Len(line.n) = 1
              THEN [t0 EXCEPT !.pattern = ParsePattern(line.n[1])] ELSE t0
        t2 == IF Len(line.o) = 1 /\ line.o[1].num
              THEN [t1 EXCEPT !.octave = line.o[1].val] ELSE t1
        t3 == IF Len(line.trans) = 1 /\ line.trans[1].num
              THEN [t2 EXCEPT !.transpose = line.trans[1].val] ELSE t2
    IN  IF Len(line.s) = 1
        THEN CASE line.s[1] = "saw" -> [t3 EXCEPT !.waveform = "Saw"]
               [] line.s[1] = "sine" -> [t3 EXCEPT !.waveform = "Sine"]
               [] line.s[1] = "square" -> [t3 EXCEPT !.waveform = "Square"]
               [] line.s[1] = "triangle" -> [t3 EXCEPT !.waveform = "Triangle"]
               [] OTHER -> t3
        ELSE t3

-----------------------------------------------------------------------------
(* Inputs *)

Names == {"a", "b"}

\* n"0 -1 3" .o(3) .s("saw")     n"x" .o(x) .trans(5)     .o(2) .s("sine")
ReplLines ==
    { [n |-> << <<Num(0), Num(-1), Num(3)>> >>, o |-> <<Num(3)>>,
       trans |-> <<>>, s |-> <<"saw">>],
      [n |-> << <<NotNum>> >>, o |-> <<NotNum>>, trans |-> <<Num(5)>>, s |-> <<>>],
      [n |-> <<>>, o |-> <<Num(2)>>, trans |-> <<>>, s |-> <<"sine">>] }

\* what create_track_interactive can return
InteractiveTracks ==
    { [name |-> "a", pattern |-> <<0, 3>>, octave |-> 3, transpose |-> 0,
       waveform |-> "Triangle", voice_spread |-> 7] }

\* project files: (tracks, scale, bpm).  At 44100 Hz a bpm of 330750 gives
\* 2 samples per step, 661500 gives 1 and 1323000 gives 0.
Projects ==
    { [tracks |-> << [Track_new("a") EXCEPT !.pattern = <<0, -1, 3>>] >>,
       scale |-> minor_scale("g"), bpm |-> 330750],
      [tracks |-> << Track_new("a") >>, scale |-> <<>>, bpm |-> 661500],
      [tracks |-> << [Track_new("a") EXCEPT !.pattern = <<-1, 2>>],
                     [Track_new("b") EXCEPT !.waveform = "Sine", !.voice_spread = 12] >>,
       scale |-> minor_scale("c"), bpm |-> 1323000],
      [tracks |-> <<>>, scale |-> minor_scale("g"), bpm |-> 220500] }

\* main's "Start with example"
ExampleSequencer ==
    LET bass == [Track_new("Bass") EXCEPT !.pattern = <<0, 0, -1, 0, 3, 3, -1, 3>>,
                                          !.octave = 2, !.waveform = "Sine"]
        lead == [Track_new("Lead") EXCEPT !.pattern = <<0, 3, 5, 7, 5, 3, 0, -1>>,
                                          !.octave = 4, !.waveform = "Saw"]
    IN  add_track(add_track(clear_tracks(Sequencer_new(44100)), bass), lead)

\* the Sequencer that main hands to the audio thread
MainSequencers ==
    { clear_tracks(Sequencer_new(44100)), Sequencer_new(44100), ExampleSequencer }
        \cup { from_project(p, 44100) : p \in Projects }

-----------------------------------------------------------------------------
(* The operations, each taken as a whole under the Sequencer's lock *)

\* a poisoned Mutex makes every `if let Ok(..) = seq.lock()` skip its body
poisoned == fault # "none"

NoCmd == [op |-> "none", name |-> "", track |-> Track_new(""),
          pos |-> 0 - 1, outcome |-> ""]

\* no function is called on its own
NoCall == [fn |-> "none", arg |-> "", ret |-> <<>>]

\* both threads outside their critical sections
Idle ==
    /\ locked = FALSE
    /\ audio_pc = "idle"
    /\ audio_buf = <<0, 0>>
    /\ ctl_pc = "idle"
    /\ ctl_cmd = NoCmd
    /\ ctl_io = "none"
    /\ snap = [audio |-> <<>>, ctl |-> <<>>]

Init ==
    /\ seq \in MainSequencers
    /\ fault = "none"
    /\ last = [op |-> "init", seen |-> <<>>, name |-> "", out |-> 0]
    /\ nsamples = 0
    /\ nedits = 0
    /\ limit = MaxSamples
    /\ Idle
    /\ call = NoCall

\* s.process() on the shared Sequencer
ProcessCall ==
    LET r == Sequencer_process(seq) IN
        /\ seq' = r.seq
        /\ fault' = r.fault
        /\ last' = [op |-> IF r.fault # "none" THEN "panic"
                           ELSE IF r.boundary THEN "boundary" ELSE "sample",
                    seen |-> r.seen, name |-> "",
                    out |-> IF r.fault # "none" THEN 0 ELSE r.out]

\* one call of Sequencer::process by the audio callback
Process ==
    /\ ~poisoned
    /\ nsamples < limit
    /\ ProcessCall
    /\ nsamples' = nsamples + 1
    /\ UNCHANGED <<nedits, limit>>
    /\ UNCHANGED <<lockvars, call>>

\* a control command: it leaves the audio side alone
Edited(op, name) ==
    /\ nedits < MaxEdits
    /\ nedits' = nedits + 1
    /\ last' = [op |-> op, seen |-> <<>>, name |-> name, out |-> 0]
    /\ UNCHANGED <<fault, nsamples, limit>>
    /\ UNCHANGED <<lockvars, call>>

\* repl_mode, a track line: update the track of that name or add one
ReplLine(name, line) ==
    /\ ~poisoned
    /\ LET track == [parse_track_line(line) EXCEPT !.name = name]
           pos == Position(seq.tracks, name)
       IN  IF pos >= 0
           THEN /\ seq' = update_track(seq, pos, track)
                /\ Edited("update", name)
           ELSE /\ Len(seq.tracks) < MaxTracks
                /\ seq' = add_track(seq, track)
                /\ Edited("add", name)

\* repl_mode, "delete <name>"
ReplDelete(name) ==
    /\ ~poisoned
    /\ LET pos == Position(seq.tracks, name)
       IN  IF pos >= 0
           THEN /\ seq' = remove_track(seq, pos)
                /\ Edited("delete", name)
           ELSE /\ seq' = seq
                /\ Edited("notfound", name)

\* repl_mode, "clear"
ReplClear ==
    /\ ~poisoned
    /\ seq' = clear_tracks(seq)
    /\ Edited("clear", "")

\* main's menu, "Add track (interactive)"
MenuAdd(track) ==
    /\ ~poisoned
    /\ Len(seq.tracks) < MaxTracks
    /\ seq' = add_track(seq, track)
    /\ Edited("add", track.name)

Next ==
    \/ Process
    \/ \E name \in Names, line \in ReplLines : ReplLine(name, line)
    \/ \E name \in Names \cup {"zz"} : ReplDelete(name)
    \/ ReplClear
    \/ \E track \in InteractiveTracks : MenuAdd(track)

Spec == Init /\ [][Next]_vars

-----------------------------------------------------------------------------
(* The end-to-end scenario of the spec's section 8: one track with pattern  *)
(* [0, -1, 3] in G minor, octave 3, at 60 bpm, which is 11025 samples per   *)
(* step at 44100 Hz; the audio callback runs for three steps.               *)

ScenarioProject ==
    [tracks |-> << [Track_new("a") EXCEPT !.pattern = <<0, -1, 3>>] >>,
     scale |-> minor_scale("g"), bpm |-> 60]

ScenarioInit ==
    /\ seq = from_project(ScenarioProject, 44100)
    /\ fault = "none"
    /\ last = [op |-> "init", seen |-> <<>>, name |-> "", out |-> 0]
    /\ nsamples = 0
    /\ nedits = 0
    /\ limit = 3 * seq.samples_per_step
    /\ Idle
    /\ call = NoCall

ScenarioNext == Process

ScenarioSpec == ScenarioInit /\ [][ScenarioNext]_vars

-----------------------------------------------------------------------------
(* One track playing one note on every step, followed for three steps: the *)
(* four waveforms at octave 3 with 500 samples per step (bpm 1323), which  *)
(* takes the envelope through its attack and into its decay, and a track   *)
(* at octave 13, whose pitches are above the sample rate, with 2 samples   *)
(* per step.                                                               *)

VoiceProjects ==
    { [tracks |-> << [Track_new("a") EXCEPT !.waveform = w] >>,
       scale |-> minor_scale("g"), bpm |-> 1323] : w \in Waveform }
      \cup { [tracks |-> << [Track_new("a") EXCEPT !.octave = 13] >>,
              scale |-> minor_scale("g"), bpm |-> 330750] }

VoiceInit ==
    /\ seq \in { from_project(p, 44100) : p \in VoiceProjects }
    /\ fault = "none"
    /\ last = [op |-> "init", seen |-> <<>>, name |-> "", out |-> 0]
    /\ nsamples = 0
    /\ nedits = 0
    /\ limit = 3 * seq.samples_per_step
    /\ Idle
    /\ call = NoCall

VoiceNext == Process

VoiceSpec == VoiceInit /\ [][VoiceNext]_vars

-----------------------------------------------------------------------------
(* note_to_semitone and minor_scale called on their own, on note names in  *)
(* both cases, with sharps and flats, and on strings that name no note.    *)

NoteNames ==
    { "c", "C", "c#", "C#", "db", "Db", "dB", "DB", "d", "D", "d#", "D#",
      "eb", "Eb", "eB", "EB", "e", "E", "f", "F", "f#", "F#", "gb", "Gb",
      "gB", "GB", "g", "G", "g#", "G#", "ab", "Ab", "aB", "AB", "a", "A",
      "a#", "A#", "bb", "Bb", "bB", "BB", "b", "B",
      "", "h", "H", "x", "do", "Do", "c ", "C ", "e#", "E#", "b#", "B#",
      "cb", "Cb", "cB", "CB", "fb", "Fb", "fB", "FB" }

NoteInit ==
    /\ seq = Sequencer_new(44100)
    /\ fault = "none"
    /\ last = [op |-> "init", seen |-> <<>>, name |-> "", out |-> 0]
    /\ nsamples = 0
    /\ nedits = 0
    /\ limit = 0
    /\ Idle
    /\ call \in { [fn |-> "pending", arg |-> n, ret |-> <<>>] : n \in NoteNames }

Call_note_to_semitone ==
    /\ call.fn = "pending"
    /\ call' = [fn |-> "note_to_semitone", arg |-> call.arg,
                ret |-> <<note_to_semitone(call.arg)>>]
    /\ UNCHANGED <<seqvars, lockvars>>

Call_minor_scale ==
    /\ call.fn = "pending"
    /\ call' = [fn |-> "minor_scale", arg |-> call.arg,
                ret |-> minor_scale(call.arg)]
    /\ UNCHANGED <<seqvars, lockvars>>

NoteNext ==
    \/ Call_note_to_semitone
    \/ Call_minor_scale

NoteSpec == NoteInit /\ [][NoteNext]_vars

-----------------------------------------------------------------------------
(* The audio callback running for ever.  The device keeps asking for       *)
(* buffers while the stream plays, so the call of process is taken again   *)
(* and again as long as it can be taken (weak fairness); the Mutex being   *)
(* poisoned by a panic ends it.  Of the count of calls only the parity is  *)
(* kept, and the fairness is stated on the count changing.  The tracks     *)
(* play the note A only (scale degrees 0 and 7 of A minor, voices          *)
(* an octave apart), whose phases come back to 0 every 2205 samples at     *)
(* 44100 Hz, and every track has a note in its pattern, so the states      *)
(* repeat.                                                                 *)

LiveProjects ==
    { [tracks |-> << [Track_new("a") EXCEPT !.pattern = <<0, 7, -1>>,
                                            !.octave = 5, !.voice_spread = 12],
                     [Track_new("b") EXCEPT !.pattern = <<-1, 0>>, !.octave = 4,
                                            !.waveform = "Sine",
                                            !.voice_spread = 12] >>,
       scale |-> minor_scale("a"), bpm |-> 330750],
      [tracks |-> << [Track_new("a") EXCEPT !.pattern = <<-1, 0>>,
                                            !.octave = 5, !.voice_spread = 12] >>,
       scale |-> minor_scale("a"), bpm |-> 661500],
      [tracks |-> << Track_new("a") >>, scale |-> <<>>, bpm |-> 661500] }

LiveInit ==
    /\ seq \in { from_project(p, 44100) : p \in LiveProjects }
    /\ fault = "none"
    /\ last = [op |-> "init", seen |-> <<>>, name |-> "", out |-> 0]
    /\ nsamples = 0
    /\ nedits = 0
    /\ limit = 0
    /\ Idle
    /\ call = NoCall

\* one call of Sequencer::process by the audio callback
Run ==
    /\ ~poisoned
    /\ ProcessCall
    /\ nsamples' = (nsamples + 1) % 2
    /\ UNCHANGED <<nedits, limit>>
    /\ UNCHANGED <<lockvars, call>>

\* the callback is called once more: possible until the Mutex is poisoned
Called ==
    /\ ~poisoned
    /\ nsamples' = (nsamples + 1) % 2

LiveNext == Run

LiveSpec == LiveInit /\ [][LiveNext]_vars /\ WF_nsamples(Called)

-----------------------------------------------------------------------------
(* The two threads statement by statement: the audio callback locks,       *)
(* writes its buffer by one process call per sample and unlocks; a control *)
(* command locks, changes tracks, then voices, prints and unlocks.         *)

\* mutant of lock_free: the lock is handed out while it is held
lock_free_always(held) == TRUE

\* Mutex::lock returns once no other thread holds the Mutex
lock_free(held) == ~held

\* the commands of repl_mode and of the menu
Commands ==
    { [NoCmd EXCEPT !.op = "clear"] }
      \cup { [NoCmd EXCEPT !.op = "delete", !.name = n] : n \in Names \cup {"zz"} }
      \cup { [NoCmd EXCEPT !.op = "line", !.name = n,
                           !.track = [parse_track_line(l) EXCEPT !.name = n]] :
                n \in Names, l \in ReplLines }
      \cup { [NoCmd EXCEPT !.op = "menu_add", !.name = tr.name, !.track = tr] :
                tr \in InteractiveTracks }
      \cup { [NoCmd EXCEPT !.op = "list"], [NoCmd EXCEPT !.op = "save"] }

\* a command's whole effect on the Sequencer
Apply(s, cmd) ==
    LET pos == Position(s.tracks, cmd.name) IN
    CASE cmd.op = "clear" -> clear_tracks(s)
      [] cmd.op = "delete" -> IF pos >= 0 THEN remove_track(s, pos) ELSE s
      [] cmd.op = "line" -> IF pos >= 0 THEN update_track(s, pos, cmd.track)
                            ELSE add_track(s, cmd.track)
      [] cmd.op = "menu_add" -> add_track(s, cmd.track)
      [] OTHER -> s

\* the name the history gives a command's outcome
Outcome(s, cmd) ==
    LET pos == Position(s.tracks, cmd.name) IN
    CASE cmd.op = "clear" -> "clear"
      [] cmd.op = "delete" -> IF pos >= 0 THEN "delete" ELSE "notfound"
      [] cmd.op = "line" -> IF pos >= 0 THEN "update" ELSE "add"
      [] cmd.op = "list" -> "list"
      [] cmd.op = "save" -> "save"
      [] OTHER -> "add"

\* n process calls in a row
RECURSIVE ProcessTimes(_, _)
ProcessTimes(s, n) ==
    IF n = 0 THEN s ELSE Sequencer_process(ProcessTimes(s, n - 1)).seq

\* the projects the two threads are followed from
LockedSequencers ==
    { from_project(p, 44100) : p \in { q \in Projects : q.bpm >= 661500 } }

LockedInit ==
    /\ seq \in LockedSequencers
    /\ fault = "none"
    /\ last = [op |-> "init", seen |-> <<>>, name |-> "", out |-> 0]
    /\ nsamples = 0
    /\ nedits = 0
    /\ limit = MaxSamples
    /\ Idle
    /\ call = NoCall

\* the output callback: seq.lock(), for a buffer of n samples
AudioLock(n) ==
    /\ audio_pc = "idle"
    /\ ~poisoned
    /\ nsamples + n <= limit
    /\ lock_free(locked)
    /\ locked' = TRUE
    /\ audio_pc' = "callback"
    /\ audio_buf' = <<n, n>>
    /\ snap' = [snap EXCEPT !.audio = <<seq>>]
    /\ UNCHANGED <<seqvars, ctl_pc, ctl_cmd, ctl_io>>
    /\ UNCHANGED call

\* *sample = s.process(): a panic unwinds out of the callback and drops the
\* guard, which poisons the Mutex
AudioProcess ==
    /\ audio_pc = "callback"
    /\ audio_buf[2] > 0
    /\ LET r == Sequencer_process(seq) IN
         /\ seq' = r.seq
         /\ fault' = r.fault
         /\ last' = [op |-> IF r.fault # "none" THEN "panic"
                            ELSE IF r.boundary THEN "boundary" ELSE "sample",
                     seen |-> r.seen, name |-> "",
                     out |-> IF r.fault # "none" THEN 0 ELSE r.out]
         /\ IF r.fault # "none"
            THEN /\ audio_pc' = "dead"
                 /\ audio_buf' = <<0, 0>>
                 /\ locked' = FALSE
                 /\ snap' = [snap EXCEPT !.audio = <<>>]
            ELSE /\ audio_buf' = <<audio_buf[1], audio_buf[2] - 1>>
                 /\ UNCHANGED <<audio_pc, locked, snap>>
    /\ nsamples' = nsamples + 1
    /\ UNCHANGED <<nedits, limit, ctl_pc, ctl_cmd, ctl_io>>
    /\ UNCHANGED call

\* the end of the callback's `if let`: the guard is dropped
AudioUnlock ==
    /\ audio_pc = "callback"
    /\ audio_buf[2] = 0
    /\ locked' = FALSE
    /\ audio_pc' = "idle"
    /\ audio_buf' = <<0, 0>>
    /\ snap' = [snap EXCEPT !.audio = <<>>]
    /\ UNCHANGED <<seqvars, ctl_pc, ctl_cmd, ctl_io>>
    /\ UNCHANGED call

\* a command's seq.lock()
CtlLock(cmd) ==
    /\ ctl_pc = "idle"
    /\ ~poisoned
    /\ nedits < MaxEdits
    /\ (cmd.op \in {"line", "menu_add"} /\ Outcome(seq, cmd) = "add")
          => Len(seq.tracks) < MaxTracks
    /\ lock_free(locked)
    /\ locked' = TRUE
    /\ ctl_pc' = "locked"
    /\ ctl_cmd' = cmd
    /\ snap' = [snap EXCEPT !.ctl = <<seq>>]
    /\ UNCHANGED <<seqvars, audio_pc, audio_buf, ctl_io>>
    /\ UNCHANGED call

\* the command's statement on tracks: tracks.clear(), tracks.remove(pos),
\* *existing = track, or the tracks.push of add_track; pos is the position
\* that position() or find() returned.  "list" and "save" (to_project) only
\* read the Sequencer.
CtlTracks ==
    /\ ctl_pc = "locked"
    /\ LET pos == Position(seq.tracks, ctl_cmd.name)
           out == Outcome(seq, ctl_cmd)
       IN  /\ ctl_cmd' = [ctl_cmd EXCEPT !.pos = pos, !.outcome = out]
           /\ CASE out = "clear" ->
                     /\ seq' = [seq EXCEPT !.tracks = <<>>]
                     /\ ctl_pc' = "half"
                [] out = "delete" ->
                     /\ seq' = [seq EXCEPT !.tracks = RemoveAt(seq.tracks, pos)]
                     /\ ctl_pc' = "half"
                [] out \in {"notfound", "list", "save"} ->
                     /\ seq' = seq
                     /\ ctl_pc' = "done"
                [] out = "update" ->
                     /\ seq' = update_track(seq, pos, ctl_cmd.track)
                     /\ ctl_pc' = "done"
                [] OTHER ->
                     /\ seq' = [seq EXCEPT !.tracks = Append(seq.tracks, ctl_cmd.track)]
                     /\ ctl_pc' = "half"
    /\ UNCHANGED <<fault, last, nsamples, nedits, limit>>
    /\ UNCHANGED <<locked, audio_pc, audio_buf, ctl_io, snap>>
    /\ UNCHANGED call

\* the command's statement on voices: voices.clear(), voices.remove(pos),
\* or the voices.push of add_track
CtlVoices ==
    /\ ctl_pc = "half"
    /\ seq' = [seq EXCEPT !.voices =
                  CASE ctl_cmd.outcome = "clear" -> <<>>
                    [] ctl_cmd.outcome = "delete" -> remove_voices(seq.voices, ctl_cmd.pos)
                    [] OTHER -> push_voices(seq.voices, ctl_cmd.track.name)]
    /\ ctl_pc' = "done"
    /\ UNCHANGED <<fault, last, nsamples, nedits, limit>>
    /\ UNCHANGED <<locked, audio_pc, audio_buf, ctl_cmd, ctl_io, snap>>
    /\ UNCHANGED call

\* the I/O a command does inside its `if let Ok(..) = seq.lock()` block,
\* after its changes: save_project calls fs::write and then println!, every
\* other command calls println!
CtlIo ==
    /\ ctl_pc = "done"
    /\ \/ /\ ctl_io = "none"
          /\ ctl_io' = IF ctl_cmd.op = "save" THEN "file" ELSE "console"
       \/ /\ ctl_io = "file"
          /\ ctl_io' = "console"
    /\ UNCHANGED <<seqvars, locked, audio_pc, audio_buf, ctl_pc, ctl_cmd, snap>>
    /\ UNCHANGED call

\* println! returns and the `if let` ends: the guard is dropped
CtlUnlock ==
    /\ ctl_pc = "done"
    /\ ctl_io = "console"
    /\ ctl_io' = "none"
    /\ locked' = FALSE
    /\ ctl_pc' = "idle"
    /\ ctl_cmd' = NoCmd
    /\ snap' = [snap EXCEPT !.ctl = <<>>]
    /\ last' = [op |-> ctl_cmd.outcome, seen |-> <<>>, name |-> ctl_cmd.name,
                out |-> 0]
    /\ nedits' = nedits + 1
    /\ UNCHANGED <<seq, fault, nsamples, limit, audio_pc, audio_buf>>
    /\ UNCHANGED call

LockedNext ==
    \/ \E n \in 1..MaxBuffer : AudioLock(n)
    \/ AudioProcess
    \/ AudioUnlock
    \/ \E cmd \in Commands : CtlLock(cmd)
    \/ CtlTracks
    \/ CtlVoices
    \/ CtlIo
    \/ CtlUnlock

LockedSpec == LockedInit /\ [][LockedNext]_vars

-----------------------------------------------------------------------------
(* Vocabulary of the properties *)

MaxOf(a, b) == IF a >= b THEN a ELSE b

\* the longest pattern length over the tracks, 0 without tracks
Longest(trs) ==
    IF Len(trs) = 0 THEN 0
    ELSE CHOOSE n \in {Len(trs[i].pattern) : i \in 1..Len(trs)} :
             \A i \in 1..Len(trs) : Len(trs[i].pattern) <= n

\* the pattern entry of track t (1-based) at the step of Sequencer s
NoteAt(s, t) == s.tracks[t].pattern[(s.step % Len(s.tracks[t].pattern)) + 1]

\* track t is triggered at the step of s: its pattern is not empty and its
\* entry is a note
Sounds(s, t) == Len(s.tracks[t].pattern) > 0 /\ NoteAt(s, t) >= 0

\* the pitch number the claim gives voice i (0-based) of track t
PitchOf(s, t, i) ==
    s.scale[(NoteAt(s, t) % Len(s.scale)) + 1] + s.tracks[t].transpose
        + 12 * s.tracks[t].octave + i * s.tracks[t].voice_spread

ProcessOps == {"sample", "boundary", "panic"}

\* the value Voice::process returned for a voice of last.seen: amp, attack,
\* decay and sustain are those of Voice::new, which nothing changes
SeenOutput(r, sample_rate) ==
    Voice_output([Voice_new EXCEPT !.phase = r.phase, !.waveform = r.waveform,
                                   !.env_phase = r.env_phase], sample_rate)

-----------------------------------------------------------------------------
(* C1 *)

\* C1: in every reachable state tracks and voices have the same length, and
\* voices[i] is the stack of three voices that was pushed for tracks[i].
C1_TracksVoicesAligned ==
    /\ Len(seq.tracks) = Len(seq.voices)
    /\ \A i \in 1..Len(seq.tracks) :
          i <= Len(seq.voices) =>
             /\ Len(seq.voices[i]) = VoicesPerTrack
             /\ \A j \in 1..Len(seq.voices[i]) :
                   seq.voices[i][j].made_for = seq.tracks[i].name

\* a track was deleted from in front of another one, after audio had run
C1_Witness ==
    /\ last.op = "delete"
    /\ Len(seq.tracks) = 1
    /\ seq.tracks[1].name = "b"
    /\ nsamples > 0

-----------------------------------------------------------------------------
(* C2 *)

\* C2: Sequencer::process never takes the step modulo zero: no process
\* call panics on the remainder by get_max_pattern_len.
C2_NoZeroStepModulus == fault # "pattern_len_zero"

-----------------------------------------------------------------------------
(* C3 *)

\* C3: triggering never fails on an empty scale: no process call panics on
\* the remainder by scale.len().
C3_NoZeroScaleModulus == fault # "scale_len_zero"

-----------------------------------------------------------------------------
(* C4 *)

\* C4 as claimed: in every reachable state step < max(1, longest pattern
\* length over the current tracks).
C4_StepInRange == seq.step < MaxOf(1, Longest(seq.tracks))

\* C4 as amended: the state that construction or a completed step boundary
\* leaves has step < max(1, longest pattern length over the current tracks).
C4_StepInRangeAtBoundary ==
    last.op \in {"init", "boundary"} => seq.step < MaxOf(1, Longest(seq.tracks))

\* a boundary advanced the step past 0 after a control edit
C4_Witness ==
    /\ last.op = "boundary"
    /\ seq.step = Longest(seq.tracks) - 1
    /\ seq.step > 0
    /\ nedits > 0

-----------------------------------------------------------------------------
(* C5 *)

\* C5: with samples_per_step >= 1, sample_counter is in
\* [0, samples_per_step); a process call increments it, or resets it to 0
\* when the incremented value reaches samples_per_step; no other operation
\* changes it.
C5_SampleCounter ==
    /\ [](seq.samples_per_step >= 1 =>
             seq.sample_counter >= 0 /\ seq.sample_counter < seq.samples_per_step)
    /\ [][ IF last'.op \in ProcessOps /\ nsamples' # nsamples
           THEN seq.samples_per_step >= 1 =>
                   seq'.sample_counter =
                       IF seq.sample_counter + 1 = seq.samples_per_step
                       THEN 0 ELSE seq.sample_counter + 1
           ELSE seq'.sample_counter = seq.sample_counter ]_vars

\* the counter was reset at a second boundary of a step of several samples
C5_Witness ==
    /\ last.op = "boundary"
    /\ seq.samples_per_step >= 2
    /\ seq.sample_counter = 0
    /\ nsamples >= 2 * seq.samples_per_step

-----------------------------------------------------------------------------
(* C6 *)

\* C6: after a step boundary, every voice i of every track whose entry at
\* the new step is a note has the frequency of the pitch number
\* scale[note mod len(scale)] + transpose + 12*octave + i*voice_spread and
\* the track's waveform, and its env_phase, reset to 0 by the trigger, has
\* advanced by this call's one sample.
C6_TriggerSetsVoices ==
    last.op = "boundary" =>
        \A t \in 1..Len(seq.tracks) :
            Sounds(seq, t) =>
                \A i \in 1..Len(seq.voices[t]) :
                    /\ seq.voices[t][i].frequency = midi_to_freq(PitchOf(seq, t, i - 1))
                    /\ seq.voices[t][i].waveform = seq.tracks[t].waveform
                    /\ seq.voices[t][i].env_phase = 1

\* a boundary triggered a note other than degree 0 on a three-voice stack
C6_Witness ==
    /\ last.op = "boundary"
    /\ \E t \in 1..Len(seq.tracks) :
          /\ Sounds(seq, t)
          /\ NoteAt(seq, t) > 0
          /\ seq.voices[t][3].frequency > seq.voices[t][1].frequency

-----------------------------------------------------------------------------
(* C7 *)

\* C7: a step boundary leaves the voices of a track whose entry at the new
\* step is a rest, or whose pattern is empty, with their frequency and
\* waveform, and with their env_phase advanced by one sample, not reset.
C7_RestLeavesVoices ==
    [][ last'.op = "boundary" =>
          \A t \in 1..Len(seq'.tracks) :
              (~Sounds(seq', t) /\ t <= Len(seq.voices)) =>
                  \A i \in 1..Len(seq.voices[t]) :
                      /\ seq'.voices[t][i].frequency = seq.voices[t][i].frequency
                      /\ seq'.voices[t][i].waveform = seq.voices[t][i].waveform
                      /\ seq'.voices[t][i].env_phase = seq.voices[t][i].env_phase + 1
      ]_vars

\* a track that was triggered earlier is at a rest at this boundary and
\* still carries the earlier trigger's frequency and a grown env_phase
C7_Witness ==
    /\ last.op = "boundary"
    /\ \E t \in 1..Len(seq.tracks) :
          /\ Len(seq.tracks[t].pattern) > 0
          /\ NoteAt(seq, t) < 0
          /\ seq.voices[t][1].frequency # Voice_new.frequency
          /\ seq.voices[t][1].env_phase >= 2

-----------------------------------------------------------------------------
(* C8 *)

\* C8: in the scenario the first voice has pitch number 43 from the first
\* sample on and through the rest at sample 11025, and pitch number 48
\* from sample 22050 on.
C8_Scenario ==
    /\ (nsamples >= 1 /\ nsamples < 2 * seq.samples_per_step) =>
          seq.voices[1][1].frequency = midi_to_freq(43)
    /\ (nsamples >= 2 * seq.samples_per_step) =>
          seq.voices[1][1].frequency = midi_to_freq(48)

-----------------------------------------------------------------------------
(* C9 *)

\* C9: in the process call that crosses a step boundary, the voices of a
\* triggered track compute that call's sample from env_phase 0 and the
\* track's waveform, and advance their phase by the new frequency.
C9_TriggerBeforeMix ==
    last.op = "boundary" =>
        \A t \in 1..Len(seq.tracks) :
            Sounds(seq, t) =>
                \A i \in 1..Len(seq.voices[t]) :
                    LET p == last.seen[t][i].phase + midi_to_freq(PitchOf(seq, t, i - 1))
                        one == 1000 * seq.sample_rate
                    IN  /\ last.seen[t][i].env_phase = 0
                        /\ last.seen[t][i].waveform = seq.tracks[t].waveform
                        /\ seq.voices[t][i].phase = IF p >= one THEN p - one ELSE p

\* a boundary re-triggered a track that had sounded before, with a waveform
\* other than the voices' initial one
C9_Witness ==
    /\ last.op = "boundary"
    /\ nsamples >= 2
    /\ \E t \in 1..Len(seq.tracks) :
          /\ Sounds(seq, t)
          /\ seq.tracks[t].waveform # Voice_new.waveform
          /\ last.seen[t][1].phase > 0

-----------------------------------------------------------------------------
(* C10 *)

InCritical(pc) == pc \in {"callback", "locked", "half", "done"}

\* C10: the callback and a command are never inside their critical sections
\* together; what the callback has done since it locked is whole process
\* calls on a Sequencer whose tracks and voices are aligned, and what a
\* command has done when it is about to unlock is its whole effect on the
\* Sequencer it found.
C10_MutualExclusion ==
    /\ ~(InCritical(audio_pc) /\ InCritical(ctl_pc))
    /\ audio_pc = "callback" =>
          /\ Len(snap.audio[1].tracks) = Len(snap.audio[1].voices)
          /\ seq = ProcessTimes(snap.audio[1], audio_buf[1] - audio_buf[2])
    /\ ctl_pc = "locked" => seq = snap.ctl[1]
    /\ ctl_pc = "done" => seq = Apply(snap.ctl[1], ctl_cmd)

\* a delete that found its track is about to unlock, after the callback had
\* written a buffer
C10_Witness ==
    /\ ctl_pc = "done"
    /\ ctl_cmd.outcome = "delete"
    /\ audio_pc = "idle"
    /\ nsamples >= 2

-----------------------------------------------------------------------------
(* C11 *)

\* C11: the control thread is never inside a file or console I/O call
\* while it holds the Sequencer's lock.
C11_NoIoUnderLock == ~(ctl_io # "none" /\ InCritical(ctl_pc) /\ locked)

-----------------------------------------------------------------------------
(* C12 *)

\* C12: no two tracks of the Sequencer have the same name.
C12_UniqueNames ==
    \A i, j \in 1..Len(seq.tracks) :
        i # j => seq.tracks[i].name # seq.tracks[j].name

-----------------------------------------------------------------------------
(* C13 *)

EditOps == {"add", "update", "delete", "notfound", "clear"}

\* C13: a control edit is applied whole or not at all.  A delete whose name
\* matches no track leaves the Sequencer as it was; a delete whose name
\* matches removes the first track of that name and the voice stack at the
\* same position, and nothing else changes.  Every other edit leaves as
\* many stacks as tracks and each remaining stack with its own track.
C13_DeleteAllOrNothing ==
    [][ /\ last'.op = "notfound" =>
              /\ seq' = seq
              /\ \A t \in 1..Len(seq.tracks) : seq.tracks[t].name # last'.name
        /\ last'.op = "delete" =>
              \E t \in 1..Len(seq.tracks) :
                  /\ seq.tracks[t].name = last'.name
                  /\ \A u \in 1..(t - 1) : seq.tracks[u].name # last'.name
                  /\ seq' = [seq EXCEPT
                                !.tracks = SubSeq(seq.tracks, 1, t - 1)
                                             \o SubSeq(seq.tracks, t + 1, Len(seq.tracks)),
                                !.voices = SubSeq(seq.voices, 1, t - 1)
                                             \o SubSeq(seq.voices, t + 1, Len(seq.voices))]
        /\ last'.op \in EditOps =>
              /\ Len(seq'.voices) = Len(seq'.tracks)
              /\ \A t \in 1..Len(seq'.tracks) :
                    \A i \in 1..Len(seq'.voices[t]) :
                        seq'.voices[t][i].made_for = seq'.tracks[t].name
      ]_vars

\* a delete removed the first of two tracks after the step had advanced, and
\* a delete of a name that no track has followed it
C13_Witness ==
    /\ last.op = "notfound"
    /\ Len(seq.tracks) = 1
    /\ seq.tracks[1].name = "b"
    /\ seq.voices[1][1].made_for = "b"
    /\ seq.step > 0

-----------------------------------------------------------------------------
(* C14 *)

\* C14: the phase of every voice is in [0, 1): at least 0 and below one
\* whole cycle.
C14_PhaseInRange ==
    \A t \in 1..Len(seq.voices) :
        \A i \in 1..Len(seq.voices[t]) :
            /\ seq.voices[t][i].phase >= 0
            /\ seq.voices[t][i].phase < 1000 * seq.sample_rate

-----------------------------------------------------------------------------
(* C15 *)

\* C15: the magnitude of every sample that Voice::process returns is at
\* most the voice's amplitude, and the value that Sequencer::process returns
\* is in [-1, 1].
C15_OutputBounded ==
    last.op \in {"sample", "boundary"} =>
        /\ \A t \in 1..Len(last.seen) :
              \A i \in 1..Len(last.seen[t]) :
                  Abs(SeenOutput(last.seen[t][i], seq.sample_rate))
                      <= 1000 * Voice_new.amp
        /\ Abs(last.out) <= 1000000

-----------------------------------------------------------------------------
(* C16 *)

\* C16: env_phase never decreases except by a trigger.  A process call that
\* returns leaves env_phase of every voice one sample period higher, counted
\* from 0 for the voices of a track that the call triggered; a call that
\* panics leaves it, or has reset it for a triggered track; a control edit
\* leaves the voices of every track that remains as they were.
C16_EnvPhaseMonotone ==
    [][ /\ last'.op \in {"sample", "boundary"} =>
              /\ Len(seq'.voices) = Len(seq.voices)
              /\ \A t \in 1..Len(seq.voices) :
                    \A i \in 1..Len(seq.voices[t]) :
                        seq'.voices[t][i].env_phase =
                            IF last'.op = "boundary" /\ Sounds(seq', t) THEN 1
                            ELSE seq.voices[t][i].env_phase + 1
        /\ last'.op = "panic" =>
              /\ Len(seq'.voices) = Len(seq.voices)
              /\ \A t \in 1..Len(seq.voices) :
                    \A i \in 1..Len(seq.voices[t]) :
                        \/ seq'.voices[t][i].env_phase = seq.voices[t][i].env_phase
                        \/ Sounds(seq', t) /\ seq'.voices[t][i].env_phase = 0
        /\ last'.op \in {"update", "notfound"} => seq'.voices = seq.voices
        /\ last'.op = "add" =>
              SubSeq(seq'.voices, 1, Len(seq.voices)) = seq.voices
        /\ last'.op = "delete" =>
              \E t \in 1..Len(seq.voices) :
                  seq'.voices = SubSeq(seq.voices, 1, t - 1)
                                  \o SubSeq(seq.voices, t + 1, Len(seq.voices))
      ]_vars

\* after an edit, a step boundary triggered one track and left another,
\* whose envelope went on
C16_Witness ==
    /\ last.op = "boundary"
    /\ nedits > 0
    /\ \E t, u \in 1..Len(seq.voices) :
          /\ seq.voices[t][1].env_phase = 1
          /\ seq.voices[u][1].env_phase > 1

-----------------------------------------------------------------------------
(* C17 *)

\* C17: the value Sequencer::process returns is the sum of the samples of
\* all voices of all tracks divided by the number of voices (here rounded
\* down to the millionth), and 0 when there is no voice; over one voice
\* alone the average is that voice's sample.
C17_MixIsAverage ==
    /\ last.op \in {"sample", "boundary"} =>
          LET total == SumSeq([t \in 1..Len(last.seen) |->
                                 SumSeq([i \in 1..Len(last.seen[t]) |->
                                           SeenOutput(last.seen[t][i], seq.sample_rate)])])
              n == SumSeq([t \in 1..Len(last.seen) |-> Len(last.seen[t])])
          IN  IF n = 0 THEN last.out = 0
              ELSE n * last.out <= total /\ total < n * (last.out + 1)
    /\ \A t \in 1..Len(seq.voices) :
          \A i \in 1..Len(seq.voices[t]) :
              average(<< <<seq.voices[t][i]>> >>, seq.sample_rate)
                  = Voice_output(seq.voices[t][i], seq.sample_rate)

\* two tracks, six voices, were mixed to a value other than 0
C17_Witness ==
    /\ last.op \in {"sample", "boundary"}
    /\ Len(last.seen) = 2
    /\ last.out # 0

-----------------------------------------------------------------------------
(* C18 *)

\* semitones of the natural notes above C
Natural == [c |-> 0, d |-> 2, e |-> 4, f |-> 5, g |-> 7, a |-> 9, b |-> 11]

Upper == [c |-> "C", d |-> "D", e |-> "E", f |-> "F", g |-> "G", a |-> "A",
          b |-> "B"]

\* the spellings of the twelve pitch classes: the seven naturals, the five
\* sharps and the five flats
Spellings ==
    { [letter |-> l, acc |-> 0] : l \in DOMAIN Natural }
      \cup { [letter |-> l, acc |-> 1] : l \in {"c", "d", "f", "g", "a"} }
      \cup { [letter |-> l, acc |-> 0 - 1] : l \in {"d", "e", "g", "a", "b"} }

\* a spelling written out, in either case of each character
Texts(sp) ==
    { l \o s : l \in {sp.letter, Upper[sp.letter]},
               s \in IF sp.acc = 0 THEN {""}
                     ELSE IF sp.acc = 1 THEN {"#"} ELSE {"b", "B"} }

\* the offset of a string: of its pitch class if it spells one, else 0
OffsetOf(text) ==
    IF \E sp \in Spellings : text \in Texts(sp)
    THEN LET sp == CHOOSE x \in Spellings : text \in Texts(x)
         IN  (Natural[sp.letter] + sp.acc) % 12
    ELSE 0

\* C18: note_to_semitone returns, for a spelling of a pitch class in any
\* letter case, sharp or flat, the class's offset in 0..11, and 0 for any
\* other string; minor_scale(root) is [0, 2, 3, 5, 7, 8, 10] with
\* note_to_semitone(root) added to each element, so minor_scale("c") is
\* [0, 2, 3, 5, 7, 8, 10] and minor_scale("g") is [7, 9, 10, 12, 14, 15, 17].
C18_NoteOffsets ==
    /\ call.fn = "note_to_semitone" =>
          /\ call.ret = <<OffsetOf(call.arg)>>
          /\ call.ret[1] \in 0..11
    /\ call.fn = "minor_scale" =>
          /\ call.ret = [i \in 1..7 |->
                           <<0, 2, 3, 5, 7, 8, 10>>[i] + OffsetOf(call.arg)]
          /\ call.arg = "c" => call.ret = <<0, 2, 3, 5, 7, 8, 10>>
          /\ call.arg = "g" => call.ret = <<7, 9, 10, 12, 14, 15, 17>>

\* the minor scale of B flat, written with a capital letter
C18_Witness ==
    /\ call.fn = "minor_scale"
    /\ call.arg = "Bb"
    /\ call.ret[1] = 10

-----------------------------------------------------------------------------
(* C19 *)

\* C19: with samples_per_step = N >= 1 and no control edit, the calls of
\* process that cross a step boundary are exactly the calls N, 2N, 3N, ...
\* counted from construction; after call k the step is (k div N) modulo the
\* longest pattern length; a call that is not at a boundary leaves the step
\* and triggers nothing: frequencies and waveforms stay and every envelope
\* goes on.
C19_BoundaryEveryNth ==
    /\ [] ( (nedits = 0 /\ seq.samples_per_step >= 1 /\ last.op \in ProcessOps) =>
              /\ last.op \in {"boundary", "panic"}
                    <=> nsamples % seq.samples_per_step = 0
              /\ last.op # "panic" =>
                    seq.step = (nsamples \div seq.samples_per_step)
                                  % MaxOf(1, Longest(seq.tracks)) )
    /\ [][ (nedits' = 0 /\ seq.samples_per_step >= 1 /\ last'.op = "sample") =>
              /\ seq'.step = seq.step
              /\ \A t \in 1..Len(seq.voices) :
                    \A i \in 1..Len(seq.voices[t]) :
                        /\ seq'.voices[t][i].frequency = seq.voices[t][i].frequency
                        /\ seq'.voices[t][i].waveform = seq.voices[t][i].waveform
                        /\ seq'.voices[t][i].env_phase = seq.voices[t][i].env_phase + 1
         ]_vars

\* the second boundary of a Sequencer with 2 samples per step: call 4
C19_Witness ==
    /\ nedits = 0
    /\ last.op = "boundary"
    /\ seq.samples_per_step = 2
    /\ nsamples = 4
    /\ seq.step = 2

-----------------------------------------------------------------------------
(* C20 *)

\* pattern index i (0-based) of track t is selected at a step boundary
Selected(t, i) ==
    /\ last.op = "boundary"
    /\ seq.step % Len(seq.tracks[t].pattern) = i

\* index i of track t has just been selected and, when its entry is a
\* note, the track's voices have been triggered; true of a track or an
\* index that the Sequencer does not have
SelectedAndTriggered(t, i) ==
    (t <= Len(seq.tracks) /\ i < Len(seq.tracks[t].pattern)) =>
        /\ Selected(t, i)
        /\ seq.tracks[t].pattern[i + 1] >= 0 =>
              \A v \in 1..Len(seq.voices[t]) :
                  /\ seq.voices[t][v].env_phase = 1
                  /\ seq.voices[t][v].waveform = seq.tracks[t].waveform

\* C20: if process keeps being called and no control edit occurs, then for
\* every track with a non-empty pattern every pattern index, index 0
\* included, is selected at a step boundary again and again, and every
\* entry that is a note is triggered again and again.
C20_EveryIndexAgain ==
    ([]<><<Called>>_nsamples) =>
        \A t \in 1..2 : \A i \in 0..2 : []<>SelectedAndTriggered(t, i)

\* the step came back to index 0 of a three-entry pattern at a boundary
C20_Witness ==
    /\ last.op = "boundary"
    /\ Len(seq.tracks) = 2
    /\ seq.step = 0
    /\ seq.voices[1][1].env_phase = 1
    /\ seq.voices[2][1].env_phase > 1

-----------------------------------------------------------------------------
(* C21 *)

\* C21: a REPL track line whose name a track already has replaces the first
\* track of that name by the parsed track and nothing else: the tracks are
\* as many and in the same order, every voice stack is as it was, the
\* updated track's own included, step and sample_counter are as they were,
\* and every stack still holds three voices.
C21_UpdateInPlace ==
    [][ last'.op = "update" =>
          /\ Len(seq'.tracks) = Len(seq.tracks)
          /\ \E t \in 1..Len(seq.tracks) :
                /\ seq.tracks[t].name = last'.name
                /\ \A u \in 1..(t - 1) : seq.tracks[u].name # last'.name
                /\ seq'.tracks[t].name = last'.name
                /\ \A u \in 1..Len(seq.tracks) :
                      u # t => seq'.tracks[u] = seq.tracks[u]
          /\ seq'.voices = seq.voices
          /\ \A t \in 1..Len(seq'.voices) : Len(seq'.voices[t]) = VoicesPerTrack
          /\ seq'.step = seq.step
          /\ seq'.sample_counter = seq.sample_counter
      ]_vars

\* the first of two tracks was updated after its voices had been triggered
\* and had run, with the step advanced
C21_Witness ==
    /\ last.op = "update"
    /\ Len(seq.tracks) = 2
    /\ seq.tracks[1].name = last.name
    /\ seq.tracks[2].name # last.name
    /\ seq.voices[1][1].phase > 0
    /\ seq.voices[1][1].frequency # Voice_new.frequency
    /\ seq.step > 0

-----------------------------------------------------------------------------
(* C22 *)

\* C22: a control edit (add, update by name, delete by name, clear) leaves
\* step, sample_counter, samples_per_step, sample_rate and scale as they
\* were; so, whatever edits are made, the process calls at a step boundary
\* are exactly the calls whose number is a multiple of samples_per_step
\* (every call when samples_per_step is 0).
C22_EditsLeaveClock ==
    /\ [][ last'.op \in EditOps =>
              /\ seq'.step = seq.step
              /\ seq'.sample_counter = seq.sample_counter
              /\ seq'.samples_per_step = seq.samples_per_step
              /\ seq'.sample_rate = seq.sample_rate
              /\ seq'.scale = seq.scale
         ]_vars
    /\ [] ( last.op \in ProcessOps =>
              ( last.op \in {"boundary", "panic"}
                  <=> nsamples % MaxOf(1, seq.samples_per_step) = 0 ) )

\* with a second track added by an edit, the second boundary of a Sequencer
\* with 2 samples per step came on call 4
C22_Witness ==
    /\ last.op = "boundary"
    /\ nedits > 0
    /\ Len(seq.tracks) = 2
    /\ seq.samples_per_step = 2
    /\ nsamples = 4
    /\ seq.step = 2

=============================================================================
